---------------------------- MODULE Spec2Model ----------------------------
(***************************************************************************)
(* Model of the Search Console query tool (src/gsc_query.py) and of the    *)
(* tool adapter that runs it as a subprocess (src/gsc_mcp_server.py).      *)
(*                                                                         *)
(* One invocation of the command is a run from pc = "idle" to              *)
(* pc = "exited"; the adapter's run_gsc then maps the process result to    *)
(* its return value (pc = "returned").  A handler that issues several      *)
(* provider requests is cut at the requests: the request log `calls`       *)
(* grows by one entry per request, in the order the code issues them.      *)
(***************************************************************************)
EXTENDS Integers, Sequences, FiniteSets, TLC

(***************************************************************************)
(* Bounds of the model.                                                    *)
(***************************************************************************)
\* longest comma separated URL list handed to --urls (non-blank tokens)
MaxUrls == 11
\* blank tokens ("a,,b", trailing comma) in a --urls value
MaxBlank == 1
\* inspect requests of a batch, counted from the first, that may answer with
\* any response; later ones either raise or answer with a plain indexed page
MaxScripted == 1
\* distinct dimension keys the provider may return for a period
MaxKeys == 2
\* largest display limit tried
MaxLimit == 2
\* rows handed to the formatter
MaxRows == 2

(***************************************************************************)
(* Program constants.                                                      *)
(***************************************************************************)
\* "Max 10 URLs per batch"
UrlCap == 10
\* --days default
DefaultDays == 28
\* rowLimit of a compare fetch
CompareRowLimit == 1000

\* Python's None for an option that was not given
None == "<None>"

\* a reading of "not given" that overlooks the empty string
FalsyOnlyNone(s) == s = None

\* truthiness of an optional string option: None and "" are both falsy
Falsy(s) == s = None \/ s = ""

Range(s) == {s[i] : i \in DOMAIN s}

Min(a, b) == IF a < b THEN a ELSE b

Max(a, b) == IF a > b THEN a ELSE b

Abs(n) == IF n < 0 THEN -n ELSE n

(***************************************************************************)
(* Calendar: a date is its day number, day 1 being 2023-01-01.  The        *)
(* model covers the years 2023 and 2024.                                   *)
(***************************************************************************)
IsLeap(y) == (y % 4 = 0 /\ y % 100 # 0) \/ y % 400 = 0

MonthLen(y, m) ==
    IF m = 2 THEN (IF IsLeap(y) THEN 29 ELSE 28)
    ELSE IF m \in {4, 6, 9, 11} THEN 30 ELSE 31

YearLen(y) == IF IsLeap(y) THEN 366 ELSE 365

RECURSIVE DaysBeforeMonth(_, _)
DaysBeforeMonth(y, m) ==
    IF m = 1 THEN 0 ELSE DaysBeforeMonth(y, m - 1) + MonthLen(y, m - 1)

RECURSIVE DaysBeforeYear(_)
DaysBeforeYear(y) ==
    IF y <= 2023 THEN 0 ELSE DaysBeforeYear(y - 1) + YearLen(y - 1)

\* datetime.date(y, m, d) as a day number
Ordinal(y, m, d) == DaysBeforeYear(y) + DaysBeforeMonth(y, m) + d

\* the calendar date of a day number
DateOf(n) ==
    LET y == CHOOSE yy \in 2023..2024 :
                 DaysBeforeYear(yy) < n /\ n <= DaysBeforeYear(yy) + YearLen(yy)
        doy == n - DaysBeforeYear(y)
        m == CHOOSE mm \in 1..12 :
                 DaysBeforeMonth(y, mm) < doy
                 /\ doy <= DaysBeforeMonth(y, mm) + MonthLen(y, mm)
    IN [year |-> y, month |-> m, day |-> doy - DaysBeforeMonth(y, m)]

Pad2(n) == IF n < 10 THEN "0" \o ToString(n) ELSE ToString(n)

\* date.strftime("%Y-%m-%d")
Strftime(n) ==
    LET dt == DateOf(n)
    IN ToString(dt.year) \o "-" \o Pad2(dt.month) \o "-" \o Pad2(dt.day)

\* date - timedelta(days=k)
MinusDays(n, k) == n - k

(***************************************************************************)
(* Text.  A Python str is a sequence of chunks whose concatenation is the  *)
(* string; literals that the code builds from a fixed prefix and a value   *)
(* (f"Error: {e}") keep the prefix as a chunk of its own.                  *)
(***************************************************************************)
RECURSIVE Repeat(_, _)
\* "c" * n
Repeat(c, n) ==
    IF n <= 0 THEN ""
    ELSE LET half == Repeat(c, n \div 2)
         IN half \o half \o (IF n % 2 = 1 THEN c ELSE "")

RECURSIVE Join(_, _)
\* sep.join(parts), every part a str
Join(sep, parts) ==
    IF parts = <<>> THEN <<>>
    ELSE IF Len(parts) = 1 THEN parts[1]
    ELSE parts[1] \o <<sep>> \o Join(sep, Tail(parts))

RECURSIVE JoinCells(_, _)
\* sep.join(cells), every cell a single chunk; the result is one chunk
JoinCells(sep, cells) ==
    IF cells = <<>> THEN ""
    ELSE IF Len(cells) = 1 THEN cells[1]
    ELSE cells[1] \o sep \o JoinCells(sep, Tail(cells))

\* f"{s:<{w}}": left-justified in a field of width w, never cut
LJust(s, w) == s \o Repeat(" ", w - Len(s))

IsWhitespace(c) == c \in {"\n", " ", ""}

RECURSIVE StripTrailing(_)
StripTrailing(s) ==
    IF s # <<>> /\ IsWhitespace(s[Len(s)])
    THEN StripTrailing(SubSeq(s, 1, Len(s) - 1)) ELSE s

RECURSIVE StripLeading(_)
StripLeading(s) ==
    IF s # <<>> /\ IsWhitespace(s[1]) THEN StripLeading(Tail(s)) ELSE s

\* str.strip() on a chunked string whose whitespace sits in chunks of its own
Strip(s) == StripLeading(StripTrailing(s))

\* print(s): the text and the newline print appends
PrintLine(s) == s \o <<"\n">>

\* the text starts with the literal "Error: "
IsErrorText(s) == s # <<>> /\ s[1] = "Error: "

(***************************************************************************)
(* Output formatter.                                                       *)
(***************************************************************************)
\* a width taken from the header alone
ColWidthHeaderOnly(w, rows, i) == w

RECURSIVE ColWidth(_, _, _)
\* col_widths[i] after the loop over rows: max of the header's and every cell's length
ColWidth(w, rows, i) ==
    IF rows = <<>> THEN w
    ELSE ColWidth(IF i <= Len(rows[1]) THEN Max(w, Len(rows[1][i])) ELSE w,
                  Tail(rows), i)

ColWidths(headers, rows) ==
    [i \in 1..Len(headers) |-> ColWidth(Len(headers[i]), rows, i)]

TableSeparator(widths) ==
    "+" \o JoinCells("+", [i \in 1..Len(widths) |-> Repeat("-", widths[i] + 2)]) \o "+"

TableLine(cells, widths) ==
    "|" \o JoinCells("|", [i \in 1..Len(cells) |-> " " \o LJust(cells[i], widths[i]) \o " "])
        \o "|"

NoDataFound == <<"No data found.">>

\* the bordered grid of format_table: separator, header row, one line per row,
\* closing separator and the "Total rows" line
TableGrid(headers, rows) ==
    LET widths == ColWidths(headers, rows)
        sep == TableSeparator(widths)
        lines == <<sep, TableLine(headers, widths), sep>>
                 \o [r \in 1..Len(rows) |-> TableLine(rows[r], widths)]
                 \o <<sep, "\nTotal rows: " \o ToString(Len(rows))>>
    IN Join("\n", [k \in 1..Len(lines) |-> <<lines[k]>>])

\* format_table without its empty-rows test
FormatTableAlwaysGrid(headers, rows) == TableGrid(headers, rows)

\* format_table(headers, rows)
FormatTable(headers, rows) ==
    IF rows = <<>> THEN NoDataFound ELSE TableGrid(headers, rows)

RECURSIVE DictPut(_, _, _)
\* d[k] = v on an insertion-ordered dict kept as a sequence of <<key, value>>
DictPut(d, k, v) ==
    IF d = <<>> THEN <<<<k, v>>>>
    ELSE IF d[1][1] = k THEN <<<<k, v>>>> \o Tail(d)
    ELSE <<d[1]>> \o DictPut(Tail(d), k, v)

RECURSIVE DictZip(_, _, _)
\* dict(zip(headers, row)), pairs taken while both last
DictZip(d, headers, row) ==
    IF headers = <<>> \/ row = <<>> THEN d
    ELSE DictZip(DictPut(d, headers[1], row[1]), Tail(headers), Tail(row))

\* every record built from the first row
JsonRecordsFirstRow(headers, rows) ==
    [r \in 1..Len(rows) |-> DictZip(<<>>, headers, rows[1])]

\* [dict(zip(headers, row)) for row in rows]
JsonRecords(headers, rows) ==
    [r \in 1..Len(rows) |-> DictZip(<<>>, headers, rows[r])]

JsonObject(d) ==
    IF d = <<>> THEN <<"  {}">>
    ELSE <<"  {">>
         \o [k \in 1..Len(d) |->
               "    \"" \o d[k][1] \o "\": \"" \o d[k][2] \o "\""
               \o (IF k < Len(d) THEN "," ELSE "")]
         \o <<"  }">>

RECURSIVE JsonObjects(_)
JsonObjects(result) ==
    IF result = <<>> THEN <<>>
    ELSE LET obj == JsonObject(result[1])
             last == obj[Len(obj)] \o (IF Len(result) > 1 THEN "," ELSE "")
         IN SubSeq(obj, 1, Len(obj) - 1) \o <<last>> \o JsonObjects(Tail(result))

\* json.dumps(result, indent=2) of a list of dicts with string values
JsonDumps(result) ==
    IF result = <<>> THEN <<"[]">>
    ELSE LET lines == <<"[">> \o JsonObjects(result) \o <<"]">>
         IN Join("\n", [k \in 1..Len(lines) |-> <<lines[k]>>])

FormatCsv(headers, rows) ==
    LET lines == <<JoinCells(",", headers)>>
                 \o [r \in 1..Len(rows) |-> JoinCells(",", rows[r])]
    IN Join("\n", [k \in 1..Len(lines) |-> <<lines[k]>>])

\* format_output(headers, rows, output)
FormatOutput(headers, rows, output) ==
    IF output = "json" THEN JsonDumps(JsonRecords(headers, rows))
    ELSE IF output = "csv" THEN FormatCsv(headers, rows)
    ELSE FormatTable(headers, rows)

(***************************************************************************)
(* State.                                                                  *)
(***************************************************************************)
VARIABLES
    pc,           \* where the invocation stands
    report,       \* args.report
    env,          \* GSC_CREDENTIALS_PATH usable, GSC_SITE_URL
    args,         \* the parsed command line
    today,        \* datetime.now().date() as read by the handler (0: not read)
    calls,        \* requests executed against the provider, in order
    replies,      \* what the provider did with each of them
    stdout,       \* text printed to standard output
    stderr,       \* text printed to standard error
    exit_code,    \* process exit status (-1 while running)
    tool_result,  \* what run_gsc returns to the tool caller
    start_date,   \* handler local
    end_date,     \* handler local
    lines,        \* report_performance local
    p1_rows,      \* report_compare local
    p2_rows,      \* report_compare local
    comparisons,  \* report_compare local, after the sort
    rows,         \* report_compare local: the rendered rows
    url_list,     \* report_indexing local
    url_pos,      \* report_indexing: URLs of url_list the loop has taken
    summary,      \* report_indexing local
    fmt           \* an application of format_output: its arguments and result

vars == <<pc, report, env, args, today, calls, replies, stdout, stderr, exit_code,
          tool_result, start_date, end_date, lines, p1_rows, p2_rows, comparisons, rows,
          url_list, url_pos, summary, fmt>>

Reports == {"properties", "search", "pages", "performance", "page-queries",
            "compare", "inspect", "sitemaps", "indexing"}

DateReports == {"search", "pages", "performance", "page-queries"}

Outputs == {"table", "json", "csv"}

\* --limit default
DefaultLimit == 20

\* parser defaults; an option taking a comma separated list holds its tokens,
\* <<>> when the option was not given and << <<>> >> for the empty string
DefaultArgs ==
    [site_url |-> None, days |-> DefaultDays, start |-> None, end |-> None,
     limit |-> DefaultLimit, output |-> "table", dimensions |-> <<>>,
     page_url |-> None, urls |-> <<>>,
     p1_start |-> None, p1_end |-> None, p2_start |-> None, p2_end |-> None]

\* truthiness of a comma separated option
FalsyList(v) == v = <<>> \/ v = << <<>> >>

EmptySummary ==
    [indexed |-> <<>>, not_indexed |-> <<>>, fetch_issues |-> <<>>,
     robots_blocked |-> <<>>]

NoFormat ==
    [headers |-> <<>>, rows |-> <<>>, output |-> "", applied |-> FALSE, result |-> <<>>]

Envs ==
    {[credentials_ok |-> TRUE, GSC_SITE_URL |-> "sc-domain:example.com"],
     [credentials_ok |-> TRUE, GSC_SITE_URL |-> ""],
     [credentials_ok |-> FALSE, GSC_SITE_URL |-> "sc-domain:example.com"]}

Todays == {Ordinal(2024, 3, 31), Ordinal(2024, 3, 1), Ordinal(2024, 1, 10)}

\* what str(e) gives for an exception of the provider client
ProviderErrors == {<<"HttpError 429: quota exceeded">>}

Init ==
    /\ pc = "idle"
    /\ report = ""
    /\ env = [credentials_ok |-> FALSE, GSC_SITE_URL |-> ""]
    /\ args = DefaultArgs
    /\ today = 0
    /\ calls = <<>>
    /\ replies = <<>>
    /\ stdout = <<>>
    /\ stderr = <<>>
    /\ exit_code = -1
    /\ tool_result = <<>>
    /\ start_date = ""
    /\ end_date = ""
    /\ lines = <<>>
    /\ p1_rows = <<>>
    /\ p2_rows = <<>>
    /\ comparisons = <<>>
    /\ rows = <<>>
    /\ url_list = <<>>
    /\ url_pos = 0
    /\ summary = EmptySummary
    /\ fmt = NoFormat

locals == <<start_date, end_date, lines, p1_rows, p2_rows, comparisons, rows,
            url_list, url_pos, summary>>

(***************************************************************************)
(* How an invocation ends.                                                 *)
(***************************************************************************)
\* main: print(result), then the interpreter exits with status 0
PrintResult(result) ==
    /\ stdout' = PrintLine(result)
    /\ stderr' = stderr
    /\ exit_code' = 0
    /\ pc' = "exited"

\* main's handler of an exception e: print(f"Error: {e}", file=sys.stderr); sys.exit(1)
ExitOnException(e) ==
    /\ stderr' = PrintLine(<<"Error: ">> \o e)
    /\ stdout' = stdout
    /\ exit_code' = 1
    /\ pc' = "exited"

\* print(message, file=sys.stderr); sys.exit(1) of get_service and get_site_url
ExitWithMessage(message) ==
    /\ stderr' = PrintLine(message)
    /\ stdout' = stdout
    /\ exit_code' = 1
    /\ pc' = "exited"

\* get_site_url: the option, or else the environment's default
SiteUrl == IF ~Falsy(args.site_url) THEN args.site_url ELSE env.GSC_SITE_URL

\* the service was built and, where the handler asks for it, a site URL is known
Configured ==
    /\ env.credentials_ok
    /\ report # "properties" => ~Falsy(SiteUrl)

(***************************************************************************)
(* Inputs: command lines, per report kind.                                 *)
(***************************************************************************)
DaysValues == {0, 1, DefaultDays}

StartValues == {None, "2024-01-01"}

EndValues == {None, "2024-01-31", "2024-03-31"}

PageUrlValues == {None, "", "https://example.com/page"}

SiteUrlValues == {None, "https://example.org/"}

DimensionsValues == {<<>>, << <<>> >>, << <<"query">>, <<" ", "page">> >>}

UrlName(i) == "https://example.com/p" \o ToString(i)

\* the tokens of a --urls value naming k URLs: written "u1,u2" when v = 0 and
\* "u1, u2" with v blank tokens (a doubled or trailing comma) otherwise
UrlTokens(k, v) ==
    LET url(i) == IF v = 0 \/ i = 1 THEN <<UrlName(i)>> ELSE <<" ", UrlName(i)>>
        blank(j) == IF j % 2 = 1 THEN <<" ">> ELSE <<>>
        \* blank j follows URL j, or the last URL when there are fewer
        after(i) == {j \in 1..v : (j = i) \/ (i = k /\ j > k)}
        RECURSIVE blanks(_, _)
        blanks(j, i) ==
            IF j > v THEN <<>>
            ELSE (IF j \in after(i) THEN <<blank(j)>> ELSE <<>>) \o blanks(j + 1, i)
        RECURSIVE build(_)
        build(i) ==
            IF i > k THEN <<>> ELSE <<url(i)>> \o blanks(1, i) \o build(i + 1)
    IN IF k = 0 THEN [j \in 1..v |-> blank(j)] ELSE build(1)

UrlsValues ==
    {<<>>, << <<>> >>} \cup {UrlTokens(k, v) : k \in 0..MaxUrls, v \in 0..MaxBlank}

PeriodValues ==
    {[p1_start |-> "2024-01-01", p1_end |-> "2024-01-31",
      p2_start |-> "2024-02-01", p2_end |-> "2024-02-29"],
     [p1_start |-> None, p1_end |-> "2024-01-31",
      p2_start |-> "2024-02-01", p2_end |-> "2024-02-29"],
     [p1_start |-> "2024-01-01", p1_end |-> "2024-01-31",
      p2_start |-> "2024-02-01", p2_end |-> ""],
     [p1_start |-> None, p1_end |-> None, p2_start |-> None, p2_end |-> None]}

DateArgs ==
    {[DefaultArgs EXCEPT !.days = d, !.start = s, !.end = e] :
        d \in DaysValues, s \in StartValues, e \in EndValues}

ArgsFor(r) ==
    CASE r = "properties" ->
           {[DefaultArgs EXCEPT !.output = o] : o \in Outputs}
      [] r = "search" ->
           {[a EXCEPT !.dimensions = d] : a \in DateArgs, d \in DimensionsValues}
      [] r = "pages" -> DateArgs
      [] r = "performance" -> DateArgs
      [] r = "page-queries" ->
           {[a EXCEPT !.page_url = u] : a \in DateArgs, u \in PageUrlValues}
      [] r = "compare" ->
           {[DefaultArgs EXCEPT !.p1_start = p.p1_start, !.p1_end = p.p1_end,
                                !.p2_start = p.p2_start, !.p2_end = p.p2_end,
                                !.limit = l, !.output = o] :
               p \in PeriodValues, l \in 0..MaxLimit, o \in Outputs}
      [] r = "inspect" ->
           {[DefaultArgs EXCEPT !.page_url = u, !.site_url = s] :
               u \in PageUrlValues, s \in SiteUrlValues}
      [] r = "sitemaps" ->
           {[DefaultArgs EXCEPT !.site_url = s, !.output = o] :
               s \in SiteUrlValues, o \in Outputs}
      [] r = "indexing" ->
           {[DefaultArgs EXCEPT !.urls = u] : u \in UrlsValues}

(***************************************************************************)
(* main, up to the dispatch.                                               *)
(***************************************************************************)
\* parser.parse_args() in a process started with some environment
ParseArgs ==
    /\ pc = "idle"
    /\ \E r \in Reports : \E e \in Envs : \E a \in ArgsFor(r) :
          /\ report' = r
          /\ env' = e
          /\ args' = a
    /\ pc' = "main"
    /\ UNCHANGED <<today, calls, replies, stdout, stderr, exit_code, tool_result, locals, fmt>>

\* get_service() finds no usable credential file
GetServiceFails ==
    /\ pc = "main"
    /\ ~env.credentials_ok
    /\ ExitWithMessage(<<"Error: ", "GSC_CREDENTIALS_PATH not set or file not found.",
                         "\n", "Set the environment variable to your service account JSON key path.">>)
    /\ UNCHANGED <<report, env, args, today, calls, replies, tool_result, locals, fmt>>

\* get_site_url(args) finds neither --site-url nor GSC_SITE_URL
GetSiteUrlFails ==
    /\ pc = "main"
    /\ env.credentials_ok
    /\ report # "properties"
    /\ Falsy(SiteUrl)
    /\ ExitWithMessage(<<"Error: ",
                         "No site URL provided. Use --site-url or set GSC_SITE_URL env var.">>)
    /\ UNCHANGED <<report, env, args, today, calls, replies, tool_result, locals, fmt>>

(***************************************************************************)
(* The provider client.  A request either raises or answers; what it       *)
(* answers is the provider's choice.                                       *)
(***************************************************************************)
Request(op, site, body) ==
    [op |-> op, siteUrl |-> site, startDate |-> body.startDate,
     endDate |-> body.endDate, dimensions |-> body.dimensions,
     rowLimit |-> body.rowLimit, filter |-> body.filter,
     inspectionUrl |-> body.inspectionUrl]

NoBody ==
    [startDate |-> "", endDate |-> "", dimensions |-> <<>>, rowLimit |-> 0,
     filter |-> "", inspectionUrl |-> <<>>]

\* the body of a searchanalytics query
QueryBody(start, end, dims, limit, filter) ==
    [NoBody EXCEPT !.startDate = start, !.endDate = end, !.dimensions = dims,
                   !.rowLimit = limit, !.filter = filter]

\* the body of a urlInspection request
InspectBody(page_url) == [NoBody EXCEPT !.inspectionUrl = page_url]

\* a row of a query response; ctr in hundredths of a percent, position in tenths
AnalyticsRow(keys, clicks) ==
    [keys |-> keys, clicks |-> clicks, impressions |-> 20 * clicks + 40,
     ctr |-> 353, position |-> 47]

\* what the request log keeps of a response
Reply(resp) == [raised |-> resp.raised, error |-> resp.error, rows |-> Len(resp.rows)]

Raised(e) == [raised |-> TRUE, error |-> e, rows |-> <<>>]

Answered(rws) == [raised |-> FALSE, error |-> <<>>, rows |-> rws]

KeyName(i) == "key" \o ToString(i)

\* responses to the query of a single-request report over the dimensions dims
QueryResponses(dims) ==
    {Raised(e) : e \in ProviderErrors}
    \cup {Answered(<<>>),
          Answered(<<AnalyticsRow([i \in 1..Len(dims) |-> KeyName(i)], 12)>>),
          Answered(<<AnalyticsRow([i \in 1..Len(dims) |-> KeyName(i)], 12),
                     AnalyticsRow([i \in 1..Len(dims) |-> KeyName(i + 1)], 7)>>)}

(***************************************************************************)
(* Pieces shared by the handlers.                                          *)
(***************************************************************************)
\* end_date = args.end or datetime.now().date().strftime("%Y-%m-%d")
ResolveEnd(now) == IF ~Falsy(args.end) THEN args.end ELSE Strftime(now)

\* start_date = args.start or (datetime.now().date() - timedelta(days=args.days)).strftime(...)
ResolveStart(now) ==
    IF ~Falsy(args.start) THEN args.start ELSE Strftime(MinusDays(now, args.days))

\* a chunked string as one chunk
Flat(s) == JoinCells("", s)

\* [d.strip() for d in args.dimensions.split(",")] if args.dimensions else ["query"]
Dims ==
    IF ~FalsyList(args.dimensions)
    THEN [i \in 1..Len(args.dimensions) |-> Flat(Strip(args.dimensions[i]))]
    ELSE <<"query">>

\* str.capitalize() on the dimension names of the model
Capitalize(d) ==
    CASE d = "query" -> "Query"
      [] d = "page" -> "Page"
      [] d = "date" -> "Date"
      [] d = "" -> ""

\* s[:n]; the strings of the model are shorter than every n the code cuts at
Truncate(s, n) == IF Len(s) <= n THEN s ELSE "<longer than the cut>"

\* f"{ctr * 100:.2f}%"
FmtPct(ctr) == ToString(ctr \div 100) \o "." \o Pad2(ctr % 100) \o "%"

\* f"{position:.1f}"
FmtPos(position) == ToString(position \div 10) \o "." \o ToString(position % 10)

\* the four metric cells of a table row
MetricCells(row) ==
    <<ToString(row.clicks), ToString(row.impressions), FmtPct(row.ctr),
      FmtPos(row.position)>>

MetricHeaders == <<"Clicks", "Impressions", "CTR", "Position">>

(***************************************************************************)
(* Single-request reports over a date range.                               *)
(***************************************************************************)
ReportSearch ==
    /\ pc = "main" /\ report = "search" /\ Configured
    /\ \E now \in Todays : \E resp \in QueryResponses(Dims) :
          LET end == ResolveEnd(now)
              start == ResolveStart(now)
              headers == [i \in 1..Len(Dims) |-> Capitalize(Dims[i])] \o MetricHeaders
              table == [r \in 1..Len(resp.rows) |->
                          [i \in 1..Len(resp.rows[r].keys) |->
                              Truncate(resp.rows[r].keys[i], 80)]
                          \o MetricCells(resp.rows[r])]
          IN /\ today' = now
             /\ start_date' = start
             /\ end_date' = end
             /\ replies' = Append(replies, Reply(resp))
             /\ calls' = Append(calls, Request("query", SiteUrl,
                                    QueryBody(start, end, Dims, args.limit, "")))
             /\ IF resp.raised THEN ExitOnException(resp.error)
                ELSE IF resp.rows = <<>>
                THEN PrintResult(<<"No search data found for ", SiteUrl, " (",
                                   start, " to ", end, ").">>)
                ELSE PrintResult(FormatOutput(headers, table, args.output))
    /\ UNCHANGED <<report, env, args, tool_result, lines, p1_rows, p2_rows, comparisons,
                   rows, url_list, url_pos, summary, fmt>>

ReportPages ==
    /\ pc = "main" /\ report = "pages" /\ Configured
    /\ \E now \in Todays : \E resp \in QueryResponses(<<"page">>) :
          LET end == ResolveEnd(now)
              start == ResolveStart(now)
              table == [r \in 1..Len(resp.rows) |->
                          <<Truncate(resp.rows[r].keys[1], 80)>>
                          \o MetricCells(resp.rows[r])]
          IN /\ today' = now
             /\ start_date' = start
             /\ end_date' = end
             /\ replies' = Append(replies, Reply(resp))
             /\ calls' = Append(calls, Request("query", SiteUrl,
                                    QueryBody(start, end, <<"page">>, args.limit, "")))
             /\ IF resp.raised THEN ExitOnException(resp.error)
                ELSE IF resp.rows = <<>>
                THEN PrintResult(<<"No page data found for ", SiteUrl, " (",
                                   start, " to ", end, ").">>)
                ELSE PrintResult(FormatOutput(<<"Page">> \o MetricHeaders, table,
                                              args.output))
    /\ UNCHANGED <<report, env, args, tool_result, lines, p1_rows, p2_rows, comparisons,
                   rows, url_list, url_pos, summary, fmt>>

ReportPageQueries ==
    /\ pc = "main" /\ report = "page-queries" /\ Configured
    /\ IF Falsy(args.page_url)
       THEN /\ PrintResult(<<"Error: ",
                             "--page-url is required for the page-queries report.">>)
            /\ UNCHANGED <<today, calls, replies, start_date, end_date>>
       ELSE \E now \in Todays : \E resp \in QueryResponses(<<"query">>) :
          LET end == ResolveEnd(now)
              start == ResolveStart(now)
              table == [r \in 1..Len(resp.rows) |->
                          <<Truncate(resp.rows[r].keys[1], 80)>>
                          \o MetricCells(resp.rows[r])]
          IN /\ today' = now
             /\ start_date' = start
             /\ end_date' = end
             /\ replies' = Append(replies, Reply(resp))
             /\ calls' = Append(calls, Request("query", SiteUrl,
                                    QueryBody(start, end, <<"query">>, args.limit,
                                              args.page_url)))
             /\ IF resp.raised THEN ExitOnException(resp.error)
                ELSE IF resp.rows = <<>>
                THEN PrintResult(<<"No search data found for page ", args.page_url, ".">>)
                ELSE PrintResult(FormatOutput(<<"Query">> \o MetricHeaders, table,
                                              args.output))
    /\ UNCHANGED <<report, env, args, tool_result, lines, p1_rows, p2_rows, comparisons,
                   rows, url_list, url_pos, summary, fmt>>

(***************************************************************************)
(* Performance overview: the totals request, then the daily trend.         *)
(***************************************************************************)
\* responses to the zero-dimension totals query (rowLimit 1)
TotalsResponses ==
    {Raised(e) : e \in ProviderErrors}
    \cup {Answered(<<>>), Answered(<<AnalyticsRow(<<>>, 1234)>>)}

\* responses to the date-dimensioned query, in an order of the provider's choosing
TrendResponses ==
    {Raised(e) : e \in ProviderErrors}
    \cup {Answered(<<>>),
          Answered(<<AnalyticsRow(<<"2024-03-02">>, 7), AnalyticsRow(<<"2024-03-01">>, 12)>>),
          Answered(<<AnalyticsRow(<<"2024-03-01">>, 12), AnalyticsRow(<<"2024-03-02">>, 7)>>)}

\* f"{n:,}"
FmtThousands(n) ==
    IF n < 1000 THEN ToString(n)
    ELSE ToString(n \div 1000) \o ","
         \o (IF n % 1000 < 10 THEN "00" ELSE IF n % 1000 < 100 THEN "0" ELSE "")
         \o ToString(n % 1000)

\* total_resp.get("rows") is truthy
HasRows(resp) == resp.rows # <<>>

\* the return of the no-data branch left out
TotalsStopNever(resp) == FALSE

\* report_performance returns after the totals request: they came without rows
TotalsStop(resp) == ~HasRows(resp)

\* report_performance up to the answer to the totals request
PerformanceTotals ==
    /\ pc = "main" /\ report = "performance" /\ Configured
    /\ \E now \in Todays : \E resp \in TotalsResponses :
          LET end == ResolveEnd(now)
              start == ResolveStart(now)
              head == << <<"Performance Overview for ", SiteUrl, " (", start, " to ",
                           end, "):">>, <<Repeat("-", 60)>> >>
          IN /\ today' = now
             /\ start_date' = start
             /\ end_date' = end
             /\ replies' = Append(replies, Reply(resp))
             /\ calls' = Append(calls, Request("query", SiteUrl,
                                    QueryBody(start, end, <<>>, 1, "")))
             /\ IF resp.raised
                THEN ExitOnException(resp.error) /\ lines' = lines
                ELSE /\ lines' = head \o
                          (IF HasRows(resp)
                           THEN << <<"Total Clicks:      ", FmtThousands(resp.rows[1].clicks)>>,
                                   <<"Total Impressions: ", FmtThousands(resp.rows[1].impressions)>>,
                                   <<"Average CTR:       ", FmtPct(resp.rows[1].ctr)>>,
                                   <<"Average Position:  ", FmtPos(resp.rows[1].position)>> >>
                           ELSE << <<"No data available for the selected period.">> >>)
                     /\ IF TotalsStop(resp)
                        THEN PrintResult(Join("\n", lines'))
                        ELSE /\ pc' = "performance_trend"
                             /\ UNCHANGED <<stdout, stderr, exit_code>>
    /\ UNCHANGED <<report, env, args, tool_result, p1_rows, p2_rows, comparisons, rows,
                   url_list, url_pos, summary, fmt>>

RECURSIVE Insert(_, _)
\* the pair x = <<key, element>> put into a list sorted by key, behind every
\* pair whose key is not greater than its own
Insert(sorted, x) ==
    IF sorted = <<>> THEN <<x>>
    ELSE IF x[1] < sorted[1][1] THEN <<x>> \o sorted
    ELSE <<sorted[1]>> \o Insert(Tail(sorted), x)

RECURSIVE SortPairs(_)
SortPairs(pairs) ==
    IF pairs = <<>> THEN <<>>
    ELSE Insert(SortPairs(SubSeq(pairs, 1, Len(pairs) - 1)), pairs[Len(pairs)])

\* sorted(seq, key=...) with keys[i] the key of seq[i]: ascending, and elements
\* with equal keys keep their order
StableSort(seq, keys) ==
    LET sorted == SortPairs([i \in 1..Len(seq) |-> <<keys[i], seq[i]>>])
    IN [i \in 1..Len(seq) |-> sorted[i][2]]

\* the ISO date strings of the days of the model
IsoDates == [n \in 1..(DaysBeforeYear(2024) + YearLen(2024)) |-> Strftime(n)]

\* the day an ISO date string names; ISO date strings order as their days do
DayOfIso(str) == CHOOSE n \in DOMAIN IsoDates : IsoDates[n] = str

\* sorted(date_resp["rows"], key=lambda x: x["keys"][0])
SortByDate(rws) == StableSort(rws, [i \in 1..Len(rws) |-> DayOfIso(rws[i].keys[1])])

\* report_performance from the trend request to its return
PerformanceTrend ==
    /\ pc = "performance_trend"
    /\ \E resp \in TrendResponses :
          LET sorted_rows == SortByDate(resp.rows)
              table_rows == [r \in 1..Len(sorted_rows) |->
                               <<sorted_rows[r].keys[1]>> \o MetricCells(sorted_rows[r])]
          IN /\ replies' = Append(replies, Reply(resp))
             /\ calls' = Append(calls, Request("query", SiteUrl,
                                    QueryBody(start_date, end_date, <<"date">>,
                                              IF args.days # 0 THEN args.days ELSE 28, "")))
             /\ IF resp.raised
                THEN ExitOnException(resp.error) /\ lines' = lines
                ELSE /\ lines' = IF HasRows(resp)
                                 THEN lines \o << <<"">>,
                                        FormatTable(<<"Date">> \o MetricHeaders, table_rows) >>
                                 ELSE lines
                     /\ PrintResult(Join("\n", lines'))
    /\ UNCHANGED <<report, env, args, today, tool_result, start_date, end_date,
                   p1_rows, p2_rows, comparisons, rows, url_list, url_pos, summary, fmt>>

(***************************************************************************)
(* Reports without a date range.                                           *)
(***************************************************************************)
\* service.sites().list() answers
SitesResponses ==
    {Raised(e) : e \in ProviderErrors}
    \cup {Answered(<<>>),
          Answered(<<[siteUrl |-> "sc-domain:example.com", permissionLevel |-> "siteOwner"],
                     [siteUrl |-> "https://example.org/", permissionLevel |-> "siteFullUser"]>>)}

ReportProperties ==
    /\ pc = "main" /\ report = "properties" /\ Configured
    /\ \E resp \in SitesResponses :
          /\ replies' = Append(replies, Reply(resp))
          /\ calls' = Append(calls, Request("sites.list", "", NoBody))
          /\ IF resp.raised THEN ExitOnException(resp.error)
             ELSE IF resp.rows = <<>>
             THEN PrintResult(<<"No Search Console properties found.">>)
             ELSE PrintResult(FormatOutput(<<"siteUrl", "permissionLevel">>,
                      [r \in 1..Len(resp.rows) |->
                          <<resp.rows[r].siteUrl, resp.rows[r].permissionLevel>>],
                      args.output))
    /\ UNCHANGED <<report, env, args, today, tool_result, locals, fmt>>

\* datetime.fromisoformat(t.replace("Z", "+00:00")).strftime("%Y-%m-%d %H:%M") for
\* the timestamps of the model; a text that is no timestamp is kept as it is
ReformatTimestamp(t) ==
    CASE t = "2024-03-01T08:15:00Z" -> "2024-03-01 08:15"
      [] t = "2024-03-02T23:59:59.123Z" -> "2024-03-02 23:59"
      [] OTHER -> t

\* service.sitemaps().list(siteUrl) answers; submitted is -1 where the sitemap
\* has no content entry of type web
SitemapsResponses ==
    {Raised(e) : e \in ProviderErrors}
    \cup {Answered(<<>>),
          Answered(<<[path |-> "https://example.com/sitemap.xml",
                      lastDownloaded |-> "2024-03-01T08:15:00Z",
                      isSitemapsIndex |-> FALSE, submitted |-> 42, errors |-> 0],
                     [path |-> "https://example.com/index.xml",
                      lastDownloaded |-> "Never",
                      isSitemapsIndex |-> TRUE, submitted |-> -1, errors |-> 3],
                     [path |-> "https://example.com/old.xml",
                      lastDownloaded |-> "yesterday",
                      isSitemapsIndex |-> FALSE, submitted |-> 0, errors |-> 1]>>)}

SitemapRow(sm) ==
    <<sm.path,
      IF sm.lastDownloaded # "Never" THEN ReformatTimestamp(sm.lastDownloaded) ELSE "Never",
      IF sm.isSitemapsIndex THEN "Index" ELSE "Sitemap",
      IF sm.submitted >= 0 THEN ToString(sm.submitted) ELSE "N/A",
      ToString(sm.errors)>>

ReportSitemaps ==
    /\ pc = "main" /\ report = "sitemaps" /\ Configured
    /\ \E resp \in SitemapsResponses :
          /\ replies' = Append(replies, Reply(resp))
          /\ calls' = Append(calls, Request("sitemaps.list", SiteUrl, NoBody))
          /\ IF resp.raised THEN ExitOnException(resp.error)
             ELSE IF resp.rows = <<>>
             THEN PrintResult(<<"No sitemaps found for ", SiteUrl, ".">>)
             ELSE PrintResult(FormatOutput(
                      <<"Path", "Last Downloaded", "Type", "URLs", "Errors">>,
                      [r \in 1..Len(resp.rows) |-> SitemapRow(resp.rows[r])],
                      args.output))
    /\ UNCHANGED <<report, env, args, today, tool_result, locals, fmt>>

(***************************************************************************)
(* URL inspection.  A field the provider left out of indexStatusResult is  *)
(* the empty string here.                                                  *)
(***************************************************************************)
NoIndexStatus ==
    [verdict |-> "", coverageState |-> "", pageFetchState |-> "",
     robotsTxtState |-> "", indexingState |-> "", crawledAs |-> "",
     googleCanonical |-> "", userCanonical |-> "", lastCrawlTime |-> "",
     referringUrls |-> <<>>]

IndexStatus(verdict, coverage, robots, fetch) ==
    [NoIndexStatus EXCEPT !.verdict = verdict, !.coverageState = coverage,
                          !.robotsTxtState = robots, !.pageFetchState = fetch]

NoRich == [present |-> FALSE, verdict |-> "", items |-> <<>>]

InspectRaised(e) ==
    [raised |-> TRUE, error |-> e, has_result |-> FALSE, link |-> "",
     idx |-> NoIndexStatus, rich |-> NoRich]

\* an answer without "inspectionResult"
InspectNoData ==
    [raised |-> FALSE, error |-> <<>>, has_result |-> FALSE, link |-> "",
     idx |-> NoIndexStatus, rich |-> NoRich]

InspectResult(idx) ==
    [raised |-> FALSE, error |-> <<>>, has_result |-> TRUE, link |-> "",
     idx |-> idx, rich |-> NoRich]

\* what the request log keeps of the response to an inspect request
InspectReply(resp) ==
    [raised |-> resp.raised, error |-> resp.error,
     rows |-> IF resp.has_result THEN 1 ELSE 0]

\* d.get(field, default)
Get(d, field, default) == IF d[field] = "" THEN default ELSE d[field]

PlainIndexed == IndexStatus("PASS", "Submitted and indexed", "ALLOWED", "SUCCESSFUL")

\* what the inspection of one URL of a batch may answer
ScriptedStatuses ==
    {PlainIndexed,
     IndexStatus("FAIL", "Crawled - currently not indexed", "ALLOWED", "SUCCESSFUL"),
     IndexStatus("PASS", "Excluded by noindex tag", "BLOCKED", ""),
     IndexStatus("PASS", "Submitted and indexed", "BLOCKED", "SOFT_404"),
     IndexStatus("NEUTRAL", "Submitted and indexed", "", "SOFT_404"),
     NoIndexStatus}

\* the answers to inspect request number n of a batch
BatchResponses(n) ==
    {InspectRaised(e) : e \in ProviderErrors}
    \cup (IF n <= MaxScripted
          THEN {InspectNoData} \cup {InspectResult(st) : st \in ScriptedStatuses}
          ELSE {InspectResult(PlainIndexed)})

\* "not indexed" in coverage.lower() or "excluded" in coverage.lower(), for the
\* coverage states of the model
SaysNotIndexed(coverage) ==
    coverage \in {"Crawled - currently not indexed", "Excluded by noindex tag"}

(***************************************************************************)
(* Indexing batch.                                                         *)
(***************************************************************************)
RECURSIVE NonBlank(_)
\* [u.strip() for u in args.urls.split(",") if u.strip()]
NonBlank(tokens) ==
    IF tokens = <<>> THEN <<>>
    ELSE (IF Strip(tokens[1]) # <<>> THEN <<Strip(tokens[1])>> ELSE <<>>)
         \o NonBlank(Tail(tokens))

\* the cap test with the bound one too high
OverCapOffByOne(list) == Len(list) > UrlCap + 1

\* len(url_list) > 10
OverCap(list) == Len(list) > UrlCap

\* an answer without a result leaves no trace of the URL
NoDataSkipped(sm, page_url) == sm

\* summary["not_indexed"].append(f"{page_url} - no data") before the continue
NoData(sm, page_url) ==
    [sm EXCEPT !.not_indexed = Append(@, page_url \o <<" - ", "no data">>)]

\* the loop body for page_url, given what its inspect request did
Inspected(sm, page_url, resp) ==
    IF resp.raised
    THEN [sm EXCEPT !.not_indexed = Append(@, page_url \o <<" - ", "Error: ">> \o resp.error)]
    ELSE IF ~resp.has_result
    THEN NoData(sm, page_url)
    ELSE LET verdict == Get(resp.idx, "verdict", "UNKNOWN")
             coverage == Get(resp.idx, "coverageState", "Unknown")
             placed == IF verdict # "PASS" \/ SaysNotIndexed(coverage)
                       THEN [sm EXCEPT !.not_indexed =
                                Append(@, page_url \o <<" - ", coverage>>)]
                       ELSE [sm EXCEPT !.indexed = Append(@, page_url)]
             robots == IF resp.idx.robotsTxtState = "BLOCKED"
                       THEN [placed EXCEPT !.robots_blocked = Append(@, page_url)]
                       ELSE placed
         IN IF Get(resp.idx, "pageFetchState", "SUCCESSFUL") # "SUCCESSFUL"
            THEN [robots EXCEPT !.fetch_issues =
                     Append(@, page_url \o <<" - ", resp.idx.pageFetchState>>)]
            ELSE robots

\* a loop whose try encloses it: the first exception ends the batch
PosAfterInspectStopOnRaise(pos, n, resp) == IF resp.raised THEN n ELSE pos + 1

\* the for loop goes on to the next URL whether or not the request raised
PosAfterInspect(pos, n, resp) == pos + 1

\* the listing of one category, when it is not empty
CategoryLines(items, label) ==
    IF items = <<>> THEN <<>>
    ELSE << <<"\n", label, ":">> >> \o [k \in 1..Len(items) |-> <<"  - ">> \o items[k]]

\* the text report_indexing returns after its loop
IndexingReport(list, sm) ==
    Join("\n",
         << <<"Indexing Report for ", SiteUrl>>, <<Repeat("-", 60)>>,
            <<"Checked:        ", ToString(Len(list))>>,
            <<"Indexed:        ", ToString(Len(sm.indexed))>>,
            <<"Not indexed:    ", ToString(Len(sm.not_indexed))>>,
            <<"Robots blocked: ", ToString(Len(sm.robots_blocked))>>,
            <<"Fetch issues:   ", ToString(Len(sm.fetch_issues))>> >>
         \o CategoryLines(sm.not_indexed, "Not Indexed")
         \o CategoryLines(sm.robots_blocked, "Robots Blocked")
         \o CategoryLines(sm.fetch_issues, "Fetch Issues"))

\* report_indexing up to its first inspect request
IndexingStart ==
    /\ pc = "main" /\ report = "indexing" /\ Configured
    /\ IF FalsyList(args.urls)
       THEN /\ PrintResult(<<"Error: ",
                             "--urls is required (comma-separated list of URLs to check).">>)
            /\ UNCHANGED <<url_list, summary>>
       ELSE LET list == NonBlank(args.urls)
            IN /\ url_list' = list
               /\ IF OverCap(list)
                  THEN /\ PrintResult(<<"Error: ",
                                "Max 10 URLs per batch to avoid API quota issues.">>)
                       /\ summary' = summary
                  ELSE /\ summary' = EmptySummary
                       /\ IF list = <<>>
                          THEN PrintResult(IndexingReport(list, EmptySummary))
                          ELSE /\ pc' = "indexing_loop"
                               /\ UNCHANGED <<stdout, stderr, exit_code>>
    /\ UNCHANGED <<report, env, args, today, calls, replies, tool_result, start_date, end_date,
                   lines, p1_rows, p2_rows, comparisons, rows, url_pos, fmt>>

\* one turn of the loop: the inspect request for the next URL, and the return
\* when that was the last
IndexingInspect ==
    /\ pc = "indexing_loop"
    /\ url_pos < Len(url_list)
    /\ LET page_url == url_list[url_pos + 1]
       IN \E resp \in BatchResponses(Len(calls) + 1) :
             /\ replies' = Append(replies, InspectReply(resp))
             /\ calls' = Append(calls, Request("inspect", SiteUrl, InspectBody(page_url)))
             /\ summary' = Inspected(summary, page_url, resp)
             /\ url_pos' = PosAfterInspect(url_pos, Len(url_list), resp)
             /\ IF url_pos' >= Len(url_list)
                THEN PrintResult(IndexingReport(url_list, summary'))
                ELSE UNCHANGED <<pc, stdout, stderr, exit_code>>
    /\ UNCHANGED <<report, env, args, today, tool_result, start_date, end_date,
                   lines, p1_rows, p2_rows, comparisons, rows, url_list, fmt>>

(***************************************************************************)
(* Single URL inspection.                                                  *)
(***************************************************************************)
FullInspection ==
    [raised |-> FALSE, error |-> <<>>, has_result |-> TRUE,
     link |-> "https://search.google.com/search-console/inspect?id=1",
     idx |-> [verdict |-> "PASS", coverageState |-> "Submitted and indexed",
              pageFetchState |-> "SUCCESSFUL", robotsTxtState |-> "ALLOWED",
              indexingState |-> "INDEXING_ALLOWED", crawledAs |-> "MOBILE",
              googleCanonical |-> "https://example.com/page",
              userCanonical |-> "https://example.com/page",
              lastCrawlTime |-> "2024-03-01T08:15:00Z",
              referringUrls |-> [k \in 1..6 |-> "https://example.com/ref" \o ToString(k)]],
     rich |-> [present |-> TRUE, verdict |-> "PASS", items |-> <<"Breadcrumbs", "FAQ">>]]

InspectResponses ==
    {InspectRaised(e) : e \in ProviderErrors}
    \cup {InspectNoData, FullInspection,
          InspectResult([NoIndexStatus EXCEPT !.lastCrawlTime = "last week"])}

\* field_map, in its order
FieldMap ==
    << <<"coverageState", "Coverage">>, <<"pageFetchState", "Page Fetch">>,
       <<"robotsTxtState", "Robots.txt">>, <<"indexingState", "Indexing">>,
       <<"crawledAs", "Crawled As">>, <<"googleCanonical", "Google Canonical">>,
       <<"userCanonical", "User Canonical">> >>

RECURSIVE FieldLines(_, _)
FieldLines(idx, k) ==
    IF k > Len(FieldMap) THEN <<>>
    ELSE (IF idx[FieldMap[k][1]] # ""
          THEN << <<LJust(FieldMap[k][2] \o ":", 15), idx[FieldMap[k][1]]>> >>
          ELSE <<>>)
         \o FieldLines(idx, k + 1)

\* seq[:n] for any integer n
Slice(seq, n) ==
    IF n >= 0 THEN SubSeq(seq, 1, Min(n, Len(seq)))
    ELSE SubSeq(seq, 1, Max(Len(seq) + n, 0))

\* the text report_inspect returns for an answer with an inspection result
InspectionReport(resp) ==
    LET idx == resp.idx
        refs == Slice(idx.referringUrls, 5)
    IN Join("\n",
         << <<"URL Inspection: ", args.page_url>>, <<Repeat("-", 60)>> >>
         \o (IF resp.link # "" THEN << <<"GSC Link: ", resp.link>> >> ELSE <<>>)
         \o << <<"Verdict:       ", Get(idx, "verdict", "UNKNOWN")>> >>
         \o FieldLines(idx, 1)
         \o (IF idx.lastCrawlTime # ""
             THEN << <<LJust("Last Crawled:", 15), ReformatTimestamp(idx.lastCrawlTime)>> >>
             ELSE <<>>)
         \o (IF refs # <<>>
             THEN << <<"\nReferring URLs:">> >> \o [k \in 1..Len(refs) |-> <<"  - ", refs[k]>>]
             ELSE <<>>)
         \o (IF resp.rich.present
             THEN << <<"\nRich Results:  ", Get(resp.rich, "verdict", "UNKNOWN")>> >>
                  \o [k \in 1..Len(resp.rich.items) |-> <<"  - ", resp.rich.items[k]>>]
             ELSE <<>>))

ReportInspect ==
    /\ pc = "main" /\ report = "inspect" /\ Configured
    /\ IF Falsy(args.page_url)
       THEN /\ PrintResult(<<"Error: ", "--page-url is required for the inspect report.">>)
            /\ UNCHANGED <<calls, replies>>
       ELSE \E resp \in InspectResponses :
               /\ replies' = Append(replies, InspectReply(resp))
               /\ calls' = Append(calls, Request("inspect", SiteUrl,
                                      InspectBody(<<args.page_url>>)))
               /\ IF resp.raised THEN ExitOnException(resp.error)
                  ELSE IF ~resp.has_result
                  THEN PrintResult(<<"No inspection data for ", args.page_url, ".">>)
                  ELSE PrintResult(InspectionReport(resp))
    /\ UNCHANGED <<report, env, args, today, tool_result, locals, fmt>>

(***************************************************************************)
(* Period comparison.                                                      *)
(***************************************************************************)
ClickValues == {5, 10}

\* the rows of one period: at most one per key, ordered as the provider orders
\* them, by clicks descending
PeriodRows(f) ==
    LET ks == DOMAIN f
        byKey == [i \in 1..Cardinality(ks) |->
                    CHOOSE k \in ks : Cardinality({j \in ks : j < k}) = i - 1]
        rws == [i \in 1..Cardinality(ks) |-> AnalyticsRow(<<KeyName(byKey[i])>>, f[byKey[i]])]
    IN StableSort(rws, [i \in 1..Len(rws) |-> -rws[i].clicks])

PeriodResponses ==
    {Raised(e) : e \in ProviderErrors}
    \cup {Answered(PeriodRows(f)) :
            f \in UNION {[ks -> ClickValues] : ks \in SUBSET (1..MaxKeys)}}

\* the row of a period as the metrics the comparison reads
Metrics(row) ==
    [clicks |-> row.clicks, impressions |-> row.impressions, ctr |-> row.ctr,
     position |-> row.position]

\* the default of p_data.get(key, ...)
ZeroMetrics == [clicks |-> 0, impressions |-> 0, ctr |-> 0, position |-> 0]

\* {tuple(r.get("keys", [])): r for r in rows}: a later row replaces an earlier one
PeriodData(rws) ==
    [key \in {rws[i].keys : i \in 1..Len(rws)} |->
        Metrics(rws[CHOOSE i \in 1..Len(rws) :
                    /\ rws[i].keys = key
                    /\ \A j \in (i + 1)..Len(rws) : rws[j].keys # key])]

\* set(p1_data.keys()) | set(p2_data.keys())
AllKeys(p1_data, p2_data) == DOMAIN p1_data \cup DOMAIN p2_data

\* the orders in which a for loop may meet the elements of a set
IterationOrders(set) ==
    {order \in [1..Cardinality(set) -> set] :
        \A i, j \in 1..Cardinality(set) : i # j => order[i] # order[j]}

\* the difference taken the wrong way round
ClickDiffReversed(p1, p2) == p1.clicks - p2.clicks

\* diff = p2.get("clicks", 0) - p1.get("clicks", 0)
ClickDiff(p1, p2) == p2.clicks - p1.clicks

\* the tuple appended for one key
Comparison(key, p1_data, p2_data) ==
    LET p1 == IF key \in DOMAIN p1_data THEN p1_data[key] ELSE ZeroMetrics
        p2 == IF key \in DOMAIN p2_data THEN p2_data[key] ELSE ZeroMetrics
    IN [key |-> key, p1 |-> p1, p2 |-> p2, diff |-> ClickDiff(p1, p2)]

\* the sort left out
SortComparisonsNot(list) == list

\* comparisons.sort(key=lambda x: abs(x[3]), reverse=True); reverse keeps the
\* order of elements with equal keys
SortComparisons(list) ==
    StableSort(list, [i \in 1..Len(list) |-> -Abs(list[i].diff)])

\* f"{diff:+d}"
FmtSigned(d) == IF d >= 0 THEN "+" \o ToString(d) ELSE ToString(d)

\* the table row of one comparison
ComparisonRow(c) ==
    [i \in 1..Len(c.key) |-> Truncate(c.key[i], 60)]
    \o <<ToString(c.p1.clicks), ToString(c.p2.clicks), FmtSigned(c.diff),
         FmtPos(c.p1.position), FmtPos(c.p2.position)>>

\* report_compare up to the answer to the first period's request
CompareFirstPeriod ==
    /\ pc = "main" /\ report = "compare" /\ Configured
    /\ IF Falsy(args.p1_start) \/ Falsy(args.p1_end) \/ Falsy(args.p2_start)
          \/ Falsy(args.p2_end)
       THEN /\ PrintResult(<<"Error: ",
                "--p1-start, --p1-end, --p2-start, --p2-end are all required for compare.">>)
            /\ UNCHANGED <<calls, replies, p1_rows>>
       ELSE \E resp \in PeriodResponses :
               /\ replies' = Append(replies, Reply(resp))
               /\ calls' = Append(calls, Request("query", SiteUrl,
                                      QueryBody(args.p1_start, args.p1_end, Dims,
                                                CompareRowLimit, "")))
               /\ p1_rows' = resp.rows
               /\ IF resp.raised THEN ExitOnException(resp.error)
                  ELSE /\ pc' = "compare_second_period"
                       /\ UNCHANGED <<stdout, stderr, exit_code>>
    /\ UNCHANGED <<report, env, args, today, tool_result, start_date, end_date, lines,
                   p2_rows, comparisons, rows, url_list, url_pos, summary, fmt>>

\* report_compare from the second period's request to its return
CompareSecondPeriod ==
    /\ pc = "compare_second_period"
    /\ \E resp \in PeriodResponses :
          /\ replies' = Append(replies, Reply(resp))
          /\ calls' = Append(calls, Request("query", SiteUrl,
                                 QueryBody(args.p2_start, args.p2_end, Dims,
                                           CompareRowLimit, "")))
          /\ p2_rows' = resp.rows
          /\ IF resp.raised
             THEN ExitOnException(resp.error) /\ UNCHANGED <<comparisons, rows>>
             ELSE IF p1_rows = <<>> /\ resp.rows = <<>>
             THEN /\ PrintResult(<<"No data found for either period.">>)
                  /\ UNCHANGED <<comparisons, rows>>
             ELSE LET p1_data == PeriodData(p1_rows)
                      p2_data == PeriodData(resp.rows)
                      headers == [i \in 1..Len(Dims) |-> Capitalize(Dims[i])]
                                 \o <<"P1 Clicks", "P2 Clicks", "Change", "P1 Pos", "P2 Pos">>
                      title == <<"Comparison for ", SiteUrl, "\n",
                                 "Period 1: ", args.p1_start, " to ", args.p1_end, "\n",
                                 "Period 2: ", args.p2_start, " to ", args.p2_end, "\n">>
                  IN \E order \in IterationOrders(AllKeys(p1_data, p2_data)) :
                        /\ comparisons' = SortComparisons(
                              [i \in 1..Len(order) |-> Comparison(order[i], p1_data, p2_data)])
                        /\ rows' = [i \in 1..Len(Slice(comparisons', args.limit)) |->
                                       ComparisonRow(comparisons'[i])]
                        /\ PrintResult(title \o <<"\n">>
                                       \o FormatOutput(headers, rows', args.output))
    /\ UNCHANGED <<report, env, args, today, tool_result, start_date, end_date, lines,
                   p1_rows, url_list, url_pos, summary, fmt>>

(***************************************************************************)
(* The tool adapter.                                                       *)
(***************************************************************************)
\* run_gsc once the subprocess has ended
RunGsc ==
    /\ pc = "exited"
    /\ tool_result' = IF exit_code # 0 THEN <<"Error: ">> \o Strip(stderr)
                      ELSE Strip(stdout)
    /\ pc' = "returned"
    /\ UNCHANGED <<report, env, args, today, calls, replies, stdout, stderr, exit_code, locals, fmt>>

Next ==
    \/ ParseArgs
    \/ GetServiceFails
    \/ GetSiteUrlFails
    \/ ReportProperties
    \/ ReportSearch
    \/ ReportPages
    \/ PerformanceTotals
    \/ PerformanceTrend
    \/ ReportPageQueries
    \/ CompareFirstPeriod
    \/ CompareSecondPeriod
    \/ ReportInspect
    \/ ReportSitemaps
    \/ IndexingStart
    \/ IndexingInspect
    \/ RunGsc

Spec == Init /\ [][Next]_vars

(***************************************************************************)
(* The formatter on its own: format_output applied to a header list, a     *)
(* row list of the headers' arity and an output mode.                      *)
(***************************************************************************)
\* columns of a formatted table
MaxCols == 2

HeaderNames == {"A", "Bb"}

CellValues == {"1", "22"}

SeqsUpTo(set, n) == UNION {[1..k -> set] : k \in 0..n}

FormatInputs ==
    {[headers |-> h, rows |-> r, output |-> o, applied |-> FALSE, result |-> <<>>] :
        h \in SeqsUpTo(HeaderNames, MaxCols),
        r \in SeqsUpTo(SeqsUpTo(CellValues, MaxCols), MaxRows),
        o \in Outputs}

InitFormat ==
    /\ pc = "format"
    /\ report = ""
    /\ env = [credentials_ok |-> FALSE, GSC_SITE_URL |-> ""]
    /\ args = DefaultArgs
    /\ today = 0
    /\ calls = <<>>
    /\ replies = <<>>
    /\ stdout = <<>>
    /\ stderr = <<>>
    /\ exit_code = -1
    /\ tool_result = <<>>
    /\ start_date = ""
    /\ end_date = ""
    /\ lines = <<>>
    /\ p1_rows = <<>>
    /\ p2_rows = <<>>
    /\ comparisons = <<>>
    /\ rows = <<>>
    /\ url_list = <<>>
    /\ url_pos = 0
    /\ summary = EmptySummary
    /\ fmt \in {f \in FormatInputs :
                  \A r \in 1..Len(f.rows) : Len(f.rows[r]) = Len(f.headers)}

\* format_output(fmt.headers, fmt.rows, fmt.output)
ApplyFormat ==
    /\ pc = "format"
    /\ fmt' = [fmt EXCEPT !.applied = TRUE,
                          !.result = FormatOutput(fmt.headers, fmt.rows, fmt.output)]
    /\ pc' = "formatted"
    /\ UNCHANGED <<report, env, args, today, calls, replies, stdout, stderr, exit_code,
                   tool_result, locals>>

NextFormat == ApplyFormat

SpecFormat == InitFormat /\ [][NextFormat]_vars

(***************************************************************************)
(* Properties.                                                             *)
(***************************************************************************)
Finished == pc \in {"exited", "returned"}

\* an option that was not given, or given as the empty string
Absent(s) == s \in {None, ""}

\* credentials are usable and a site URL is known from the option or the environment
ConfigurationOk ==
    env.credentials_ok /\ (~Absent(args.site_url) \/ env.GSC_SITE_URL # "")

QuotaCapError == <<"Error: ", "Max 10 URLs per batch to avoid API quota issues.">>

\* the tokens of a --urls value that are more than whitespace
UrlCount(tokens) ==
    Cardinality({i \in DOMAIN tokens :
                   \E j \in DOMAIN tokens[i] : tokens[i][j] \notin {"", " ", "\n"}})

\* C1: an indexing invocation whose parsed URL list holds more than 10 URLs
\* never issues a provider request, in any of its states, and ends by returning
\* the quota-cap error.
C1_OverCapIssuesNoRequest ==
    /\ (report = "indexing" /\ UrlCount(args.urls) > UrlCap) =>
          /\ calls = <<>>
          /\ (Finished /\ ConfigurationOk) =>
                /\ exit_code = 0
                /\ stdout = PrintLine(QuotaCapError)
                /\ Len(url_list) = UrlCount(args.urls)
    /\ (report = "indexing" /\ Len(url_list) > UrlCap) =>
          /\ calls = <<>>
          /\ Finished
          /\ stdout = PrintLine(QuotaCapError)
          /\ pc = "returned" => tool_result = QuotaCapError

C1_Witness ==
    /\ pc = "exited" /\ report = "indexing"
    /\ Len(url_list) = UrlCap + 1
    /\ calls = <<>>
    /\ stdout = PrintLine(QuotaCapError)

\* the entry the batch keeps for a URL whose inspect request raised
ErrorEntry(url, reply) == url \o <<" - ", "Error: ">> \o reply.error

\* the not-indexed entries tagged as errors
ErrorEntries ==
    {k \in DOMAIN summary.not_indexed :
        /\ Len(summary.not_indexed[k]) >= 3
        /\ summary.not_indexed[k][2] = " - "
        /\ summary.not_indexed[k][3] = "Error: "}

\* an indexing invocation that passed its validation: the batch is running or done
BatchAccepted ==
    /\ report = "indexing"
    /\ pc \in {"indexing_loop", "exited", "returned"}
    /\ ConfigurationOk
    /\ args.urls \notin {<<>>, << <<>> >>}
    /\ Len(url_list) <= UrlCap

\* C2: in a batch of at most 10 URLs, whichever inspect requests raise, the
\* requests issued so far are exactly one per URL taken, in list order; each
\* raising URL has exactly one not-indexed entry tagged "Error: <message>" and
\* there are no other such entries; the loop always has a next turn until the
\* list is exhausted, and the invocation ends with the summary, exit status 0,
\* after inspecting every URL.
C2_FailuresDoNotAbortBatch ==
    BatchAccepted =>
       /\ Len(calls) = url_pos /\ Len(replies) = url_pos /\ url_pos <= Len(url_list)
       /\ \A i \in 1..Len(calls) :
             calls[i].op = "inspect" /\ calls[i].inspectionUrl = url_list[i]
       /\ \A i \in 1..Len(replies) :
             replies[i].raised =>
                Cardinality({k \in DOMAIN summary.not_indexed :
                    summary.not_indexed[k] = ErrorEntry(url_list[i], replies[i])}) = 1
       /\ Cardinality(ErrorEntries)
             = Cardinality({i \in 1..Len(replies) : replies[i].raised})
       /\ pc = "indexing_loop" => url_pos < Len(url_list)
       /\ Finished =>
             /\ url_pos = Len(url_list)
             /\ exit_code = 0 /\ stderr = <<>>
             /\ stdout[1] = "Indexing Report for "
             /\ stdout[6] = "Checked:        " /\ stdout[7] = ToString(Len(url_list))
             /\ stdout[12] = "Not indexed:    "
             /\ stdout[13] = ToString(Len(summary.not_indexed))

C2_Witness ==
    /\ pc = "exited" /\ report = "indexing"
    /\ Len(url_list) = UrlCap /\ Len(calls) = UrlCap
    /\ replies[3].raised /\ ~replies[4].raised /\ replies[UrlCap].raised
    /\ Cardinality(ErrorEntries) = 2

\* the field the report kind requires is absent or empty
RequiredFieldMissing ==
    \/ report \in {"page-queries", "inspect"} /\ Absent(args.page_url)
    \/ report = "indexing" /\ args.urls \in {<<>>, << <<>> >>}
    \/ report = "compare" /\ (Absent(args.p1_start) \/ Absent(args.p1_end)
                              \/ Absent(args.p2_start) \/ Absent(args.p2_end))

RequiredFieldError ==
    CASE report = "page-queries" ->
           <<"Error: ", "--page-url is required for the page-queries report.">>
      [] report = "inspect" ->
           <<"Error: ", "--page-url is required for the inspect report.">>
      [] report = "indexing" ->
           <<"Error: ", "--urls is required (comma-separated list of URLs to check).">>
      [] report = "compare" ->
           <<"Error: ",
             "--p1-start, --p1-end, --p2-start, --p2-end are all required for compare.">>

\* C3: an invocation of page-queries, inspect, indexing or compare whose
\* required field is absent or empty issues no provider request, and what it
\* puts out is an "Error: ..." text: the handler's own message for the field,
\* returned as the result, whenever the handler is reached.
C3_MissingFieldIsErrorWithoutRequest ==
    RequiredFieldMissing =>
       /\ calls = <<>>
       /\ pc \in {"main", "exited", "returned"}
       /\ Finished =>
             IF ConfigurationOk
             THEN stdout = PrintLine(RequiredFieldError) /\ stderr = <<>>
             ELSE IsErrorText(stderr) /\ stdout = <<>>
       /\ pc = "returned" => IsErrorText(tool_result)

C3_Witness ==
    /\ pc = "returned" /\ report = "compare"
    /\ args.p2_end = "" /\ ~Absent(args.p1_start)
    /\ calls = <<>>
    /\ tool_result = RequiredFieldError

\* C4: every invocation that ends in an error text ends with a non-zero exit
\* status and the text on standard error, nothing on standard output, and the
\* adapter returns it through its non-zero-exit branch.
C4_ErrorsExitNonZero ==
    (Finished /\ (IsErrorText(stdout) \/ IsErrorText(stderr))) =>
       /\ exit_code # 0
       /\ IsErrorText(stderr)
       /\ stdout = <<>>
       /\ pc = "returned" => tool_result = <<"Error: ">> \o Strip(stderr)

\* C5 as stated: whatever the mode, formatting an empty row list gives the
\* literal "No data found."
C5_EmptyRowsAnyMode ==
    (fmt.applied /\ fmt.rows = <<>>) => fmt.result = <<"No data found.">>

\* C5, amended: formatting an empty row list gives "No data found." in table
\* mode, the empty list "[]" in json mode and the header line alone in csv mode.
C5_EmptyRowsPerMode ==
    (fmt.applied /\ fmt.rows = <<>>) =>
       /\ fmt.output = "table" => fmt.result = <<"No data found.">>
       /\ fmt.output = "json" => fmt.result = <<"[]">>
       /\ fmt.output = "csv" => fmt.result = <<JoinCells(",", fmt.headers)>>

C5_Witness ==
    /\ fmt.applied /\ fmt.rows = <<>> /\ Len(fmt.headers) = MaxCols
    /\ fmt.output = "json" /\ fmt.result = <<"[]">>

\* C6: the first query of a date-ranged report carries the resolved end date
\* (the explicit one, else today) and, as start date, the explicit start date
\* or else the resolved end date minus args.days days.
C6_StartIsEndMinusLookback ==
    (report \in DateReports /\ Len(calls) >= 1) =>
       LET resolved_end == IF Absent(args.end) THEN IsoDates[today] ELSE args.end
       IN /\ calls[1].endDate = resolved_end
          /\ calls[1].startDate =
                IF Absent(args.start)
                THEN IsoDates[DayOfIso(resolved_end) - args.days]
                ELSE args.start

\* a compare invocation that got both periods' rows and had something to compare
CompareDone ==
    /\ report = "compare" /\ Finished
    /\ Len(replies) = 2 /\ ~replies[2].raised
    /\ (p1_rows # <<>> \/ p2_rows # <<>>)

KeysOf(rws) == {rws[i].keys : i \in 1..Len(rws)}

\* the metrics a period's rows give for a key, all zero when the key is not there
MetricsFor(rws, key) ==
    IF key \in KeysOf(rws)
    THEN LET r == rws[CHOOSE i \in 1..Len(rws) : rws[i].keys = key]
         IN [clicks |-> r.clicks, impressions |-> r.impressions, ctr |-> r.ctr,
             position |-> r.position]
    ELSE [clicks |-> 0, impressions |-> 0, ctr |-> 0, position |-> 0]

\* C7: the comparison entries are exactly one per key of the union of the two
\* periods' keys; each entry holds the metrics of its key in each period, all
\* zero for a period that lacks the key; its delta is period 2 clicks minus
\* period 1 clicks.
C7_OneEntryPerUnionKey ==
    CompareDone =>
       LET union == KeysOf(p1_rows) \cup KeysOf(p2_rows)
       IN /\ Len(comparisons) = Cardinality(union)
          /\ {comparisons[i].key : i \in 1..Len(comparisons)} = union
          /\ \A i \in 1..Len(comparisons) :
                /\ comparisons[i].p1 = MetricsFor(p1_rows, comparisons[i].key)
                /\ comparisons[i].p2 = MetricsFor(p2_rows, comparisons[i].key)
                /\ comparisons[i].diff
                      = MetricsFor(p2_rows, comparisons[i].key).clicks
                        - MetricsFor(p1_rows, comparisons[i].key).clicks

C7_Witness ==
    /\ CompareDone /\ pc = "exited"
    /\ Len(p1_rows) = 1 /\ Len(p2_rows) = 2
    /\ \E i, j \in 1..Len(comparisons) :
          /\ comparisons[i].key \in KeysOf(p1_rows)
          /\ comparisons[i].diff = 5
          /\ comparisons[j].key \notin KeysOf(p1_rows)
          /\ comparisons[j].p1.clicks = 0 /\ comparisons[j].p1.position = 0
          /\ comparisons[j].diff = 5

FirstEncounter(key) ==
    IF key \in KeysOf(p1_rows)
    THEN CHOOSE i \in 1..Len(p1_rows) : p1_rows[i].keys = key
    ELSE Len(p1_rows) + (CHOOSE i \in 1..Len(p2_rows) : p2_rows[i].keys = key)

\* C9: entries with equal absolute delta stand in the order in which their
\* keys were first encountered in the provider's rows.
C9_TiesInFirstEncounterOrder ==
    CompareDone =>
       \A i, j \in 1..Len(comparisons) :
          (i < j /\ Abs(comparisons[i].diff) = Abs(comparisons[j].diff)) =>
             FirstEncounter(comparisons[i].key) < FirstEncounter(comparisons[j].key)

NoDataLine == <<"No data available for the selected period.">>

\* C10: in a performance invocation the trend query (dimension date) is only
\* ever the second request, issued after a totals query that answered with at
\* least one row; when the totals query answers without rows the invocation has
\* ended with the "no data available" text after exactly one request.
C10_TrendOnlyAfterTotalsRows ==
    report = "performance" =>
       /\ Len(calls) <= 2
       /\ \A c \in 1..Len(calls) : calls[c].dimensions = <<"date">> => c = 2
       /\ Len(calls) = 2 =>
             /\ ~replies[1].raised /\ replies[1].rows >= 1
             /\ calls[1].dimensions = <<>> /\ calls[2].dimensions = <<"date">>
       /\ (Len(replies) >= 1 /\ ~replies[1].raised /\ replies[1].rows = 0) =>
             /\ Len(calls) = 1
             /\ Finished /\ exit_code = 0
             /\ lines[Len(lines)] = NoDataLine
             /\ stdout = PrintLine(Join("\n", lines))

C10_Witness ==
    /\ report = "performance" /\ pc = "exited"
    /\ Len(calls) = 1 /\ ~replies[1].raised /\ replies[1].rows = 0
    /\ lines[Len(lines)] = NoDataLine

\* the value a record (a sequence of <<key, value>>) holds for a key
ValueOf(rec, key) == rec[CHOOSE k \in 1..Len(rec) : rec[k][1] = key][2]

\* no name stands at two positions of the header list
DistinctNames(headers) ==
    \A i, j \in 1..Len(headers) : headers[i] = headers[j] => i = j

\* the indented JSON text of a list with one object per row, whose members are
\* the headers in order, each with the cell at its position
RowsAsJson(headers, rws) ==
    LET member(r, i) == "    \"" \o headers[i] \o "\": \"" \o rws[r][i] \o "\""
                        \o (IF i < Len(headers) THEN "," ELSE "")
        object(r) == <<"  {">> \o [i \in 1..Len(headers) |-> member(r, i)]
                     \o <<"  }" \o (IF r < Len(rws) THEN "," ELSE "")>>
        all[r \in 0..Len(rws)] == IF r = 0 THEN <<"[">> ELSE all[r - 1] \o object(r)
        text == all[Len(rws)] \o <<"]">>
    IN [k \in 1..(2 * Len(text) - 1) |-> IF k % 2 = 1 THEN text[(k + 1) \div 2] ELSE "\n"]

\* json mode applied to a non-empty header list and a non-empty row list
JsonApplied ==
    /\ fmt.applied /\ fmt.output = "json"
    /\ fmt.headers # <<>> /\ fmt.rows # <<>>

\* C11 as stated: for every non-empty header list and row list of the headers'
\* arity, json mode gives one record per row, in row order, whose key set is
\* the headers and which maps the key at each header position to the row's
\* value at that position.
C11_RecordPerRowAnyHeaders ==
    JsonApplied =>
       LET recs == JsonRecords(fmt.headers, fmt.rows)
       IN /\ fmt.result = JsonDumps(recs)
          /\ Len(recs) = Len(fmt.rows)
          /\ \A r \in 1..Len(recs) :
                /\ {recs[r][k][1] : k \in 1..Len(recs[r])} = Range(fmt.headers)
                /\ \A i \in 1..Len(fmt.headers) :
                      ValueOf(recs[r], fmt.headers[i]) = fmt.rows[r][i]

\* C11, amended: when the header names are pairwise distinct, the json text is
\* the list of one object per row, in row order, each with exactly the headers
\* as keys, in header order, mapped to the row's value at the same position.
\* When a name repeats, the record holds that key once, with the row's value
\* at the last position of the name.
C11_RecordPerRowDistinctNames ==
    JsonApplied =>
       LET recs == JsonRecords(fmt.headers, fmt.rows)
       IN /\ Len(recs) = Len(fmt.rows)
          /\ DistinctNames(fmt.headers) => fmt.result = RowsAsJson(fmt.headers, fmt.rows)
          /\ \A r \in 1..Len(recs) :
                /\ {recs[r][k][1] : k \in 1..Len(recs[r])} = Range(fmt.headers)
                /\ Len(recs[r]) = Cardinality(Range(fmt.headers))
                /\ \A i \in 1..Len(fmt.headers) :
                      LET last == CHOOSE j \in 1..Len(fmt.headers) :
                                     /\ fmt.headers[j] = fmt.headers[i]
                                     /\ \A m \in (j + 1)..Len(fmt.headers) :
                                           fmt.headers[m] # fmt.headers[i]
                      IN ValueOf(recs[r], fmt.headers[i]) = fmt.rows[r][last]

C11_Witness ==
    /\ JsonApplied
    /\ fmt.headers = <<"A", "Bb">>
    /\ fmt.rows = <<<<"1", "22">>, <<"22", "22">>>>
    /\ fmt.result = RowsAsJson(fmt.headers, fmt.rows)

\* the lengths of the header and of every cell of column i
ColumnLengths(i) ==
    {Len(fmt.headers[i])} \cup {Len(fmt.rows[r][i]) : r \in 1..Len(fmt.rows)}

\* table mode applied to a non-empty row list
TableApplied == fmt.applied /\ fmt.output = "table" /\ fmt.rows # <<>>

\* the rendered lines of the grid: the odd chunks of the text, but for the
\* closing "Total rows" line
GridLines == {k \in 1..(Len(fmt.result) - 2) : k % 2 = 1}

\* the width of column i as rendered in a line: what stands between the
\* column's bars, less the blank on either side
RenderedWidth(line, i) ==
    LET bars == {p \in 1..Len(line) : SubSeq(line, p, p) \in {"|", "+"}}
        nth[n \in 0..(Len(fmt.headers) + 1)] ==
            IF n = 0 THEN 0
            ELSE CHOOSE p \in bars : p > nth[n - 1] /\ \A q \in bars : q > nth[n - 1] => p <= q
    IN nth[i + 1] - nth[i] - 3

\* C12: in table mode with non-empty rows, the width computed for every column
\* is at least the length of its header and of every cell of the column, and is
\* the maximum of those lengths; every line of the grid is rendered with that
\* width in that column.
C12_WidthIsColumnMaximum ==
    TableApplied =>
       LET widths == ColWidths(fmt.headers, fmt.rows)
       IN /\ Len(widths) = Len(fmt.headers)
          /\ \A i \in 1..Len(fmt.headers) :
                /\ \A n \in ColumnLengths(i) : widths[i] >= n
                /\ widths[i] \in ColumnLengths(i)
                /\ \A k \in GridLines : RenderedWidth(fmt.result[k], i) = widths[i]
          /\ Len(fmt.result) = 2 * (Len(fmt.rows) + 5) - 1

C12_Witness ==
    /\ TableApplied
    /\ fmt.headers = <<"A", "Bb">>
    /\ fmt.rows = <<<<"22", "1">>, <<"1", "1">>>>
    /\ ColWidths(fmt.headers, fmt.rows) = <<2, 2>>
    /\ fmt.result[3] = "| A  | Bb |"

\* the URL an entry of a summary list stands for: its leading chunk
EntryUrl(entry) == <<entry[1]>>

\* the place in url_list of the URL of each entry of a summary list
Places(list) ==
    [k \in 1..Len(list) |-> CHOOSE i \in 1..Len(url_list) : url_list[i] = EntryUrl(list[k])]

\* the entries of a summary list stand for processed URLs, in input order
InInputOrder(list) ==
    /\ \A k \in 1..Len(list) :
          \E i \in 1..url_pos : url_list[i] = EntryUrl(list[k])
    /\ \A k, m \in 1..Len(list) : k < m => Places(list)[k] < Places(list)[m]

\* how many entries of a summary list stand for a URL
Occurrences(list, url) == Cardinality({k \in 1..Len(list) : EntryUrl(list[k]) = url})

\* C13: at every point of an indexing batch, each URL processed so far, raised
\* and empty answers included, stands in exactly one of the indexed and
\* not-indexed lists and no other URL stands in either, so their counts add up
\* to the number of URLs processed; robots-blocked and fetch-issue entries are
\* for URLs already in one of the two lists; every list keeps input order; at
\* the end the reported Checked count is the sum of the reported Indexed and
\* Not indexed counts.
C13_ProcessedUrlsArePartitioned ==
    BatchAccepted =>
       /\ \A i \in 1..url_pos :
             Occurrences(summary.indexed, url_list[i])
               + Occurrences(summary.not_indexed, url_list[i]) = 1
       /\ \A i \in (url_pos + 1)..Len(url_list) :
             Occurrences(summary.indexed, url_list[i])
               + Occurrences(summary.not_indexed, url_list[i]) = 0
       /\ Len(summary.indexed) + Len(summary.not_indexed) = url_pos
       /\ \A i \in 1..url_pos :
             /\ replies[i].raised \/ replies[i].rows = 0 =>
                   Occurrences(summary.not_indexed, url_list[i]) = 1
             /\ Occurrences(summary.robots_blocked, url_list[i]) <= 1
             /\ Occurrences(summary.fetch_issues, url_list[i]) <= 1
       /\ InInputOrder(summary.indexed)
       /\ InInputOrder(summary.not_indexed)
       /\ InInputOrder(summary.robots_blocked)
       /\ InInputOrder(summary.fetch_issues)
       /\ Finished =>
             /\ stdout[6] = "Checked:        " /\ stdout[7] = ToString(url_pos)
             /\ stdout[9] = "Indexed:        "
             /\ stdout[10] = ToString(Len(summary.indexed))
             /\ stdout[13] = ToString(url_pos - Len(summary.indexed))
             /\ stdout[15] = "Robots blocked: "
             /\ stdout[16] = ToString(Len(summary.robots_blocked))
             /\ stdout[18] = "Fetch issues:   "
             /\ stdout[19] = ToString(Len(summary.fetch_issues))

C13_Witness ==
    /\ BatchAccepted /\ pc = "exited"
    /\ url_pos = 3
    /\ replies[1].rows = 0 /\ ~replies[1].raised
    /\ replies[2].raised /\ ~replies[3].raised
    /\ Len(summary.indexed) = 1 /\ Len(summary.not_indexed) = 2
    /\ stdout[7] = "3"

=============================================================================
